---- MODULE Spec2Model ----
(***************************************************************************)
(* History statistics of the search (src/src/history.h): the saturating    *)
(* counter StatsEntry<T, D>, the feature index functions, the row-major    *)
(* table Stats<T, D, Sizes...>, and the table catalog.                     *)
(***************************************************************************)
EXTENDS Integers, Sequences, FiniteSets, TLC

(***************************************************************************)
(* Bounds of the model.                                                    *)
(***************************************************************************)
\* Small saturation bounds D are enumerated exhaustively up to MaxD.
MaxD == 5
\* Tables have up to MaxRank dimensions of up to MaxDimSize each, and up to
\* MaxCells cells.
MaxRank == 3
MaxDimSize == 3
MaxCells == 6
\* Each of the two workers updates the shared counter up to MaxUpdates times.
MaxUpdates == 2
\* For a small D, bonuses and assigned values range over -(D+Slack)..(D+Slack).
Slack == 2
\* The catalog check samples [-D, D] on a grid of GridSteps steps to each side.
GridSteps == 8

(***************************************************************************)
(* Integer types.                                                          *)
(***************************************************************************)
Int16Min == -(2^15)
Int16Max == 2^15 - 1
Int32Min == -2147483647 - 1
Int32Max == 2147483647

\* Conversion of an int to std::int16_t (the store of `entry += ...`): modular.
Narrow16(x) == ((x + 2^15) % 2^16) - 2^15

(***************************************************************************)
(* StatsEntry<T, D>                                                        *)
(***************************************************************************)
\* std::clamp(v, lo, hi)
clamp(v, lo, hi) == IF v < lo THEN lo ELSE IF hi < v THEN hi ELSE v

\* std::abs
absIdentity(x) == x
abs(x) == IF x < 0 THEN -x ELSE x

\* The / of two ints in C++: the quotient truncated toward zero.
IntDivFloor(a, b) == a \div b
IntDiv(a, b) ==
    LET na == IF a < 0 THEN -a ELSE a
        nb == IF b < 0 THEN -b ELSE b
    IN  IF (a < 0) = (b < 0) THEN na \div nb ELSE -(na \div nb)

\* entry * std::abs(clampedBonus), an int
ScaleProduct(e, clampedBonus) == e * abs(clampedBonus)

\* clampedBonus - entry * std::abs(clampedBonus) / D, the right operand of +=
UpdateDeltaNoDecay(e, clampedBonus, d) == clampedBonus
UpdateDelta(e, clampedBonus, d) ==
    clampedBonus - IntDiv(ScaleProduct(e, clampedBonus), d)

\* entry + (right operand), the int that += converts back to T
UpdateSum(e, bonus, d) ==
    LET clampedBonus == clamp(bonus, -d, d)
    IN  e + UpdateDelta(e, clampedBonus, d)

\* The value of entry after operator<<(bonus)
StatsEntryUpdateAssign(e, bonus, d) ==
    LET clampedBonus == clamp(bonus, -d, d)
    IN  Narrow16(UpdateDelta(e, clampedBonus, d))
StatsEntryUpdate(e, bonus, d) == Narrow16(UpdateSum(e, bonus, d))

(***************************************************************************)
(* Table catalog: the bounds D of the specializations.                     *)
(***************************************************************************)
CORRECTION_HISTORY_LIMIT == 1024
ButterflyHistoryD == 7183
LowPlyHistoryD == 7183
CapturePieceToHistoryD == 10692
PieceToHistoryD == 30000
PawnHistoryD == 8192
KnightHistoryD == 5000
TTMoveHistoryD == 8192

CatalogBounds ==
    { ButterflyHistoryD, LowPlyHistoryD, CapturePieceToHistoryD, PieceToHistoryD,
      PawnHistoryD, KnightHistoryD, CORRECTION_HISTORY_LIMIT, TTMoveHistoryD }

\* static_assert(D <= std::numeric_limits<T>::max()); D positive
ValidBound(d) == d >= 1 /\ d <= Int16Max

SmallBounds == 1..MaxD
\* The bound of the specification's end-to-end scenario.
ScenarioBounds == {100}
Bounds == SmallBounds \cup ScenarioBounds

\* The bonuses the search driver passes: any int.
BonusInputs(d) ==
    IF d \in SmallBounds
    THEN (-(d + Slack))..(d + Slack) \cup {Int32Min, Int32Max}
    ELSE { Int32Min, -(2 * d), -d - 1, -d, -(d \div 2), -1, 0,
           1, d \div 2, d, d + 1, 2 * d, Int32Max }

\* The values operator= is given: any value of T, here those at and around
\* the range [-D, D].
AssignInputs(d) ==
    IF d \in SmallBounds
    THEN (-(d + Slack))..(d + Slack)
    ELSE { -d - 1, -d, 0, d, d + 1 }

(***************************************************************************)
(* State.                                                                  *)
(***************************************************************************)
VARIABLES
    D,       \* the template parameter D of the counter
    entry,   \* StatsEntry::entry
    last,    \* the last operation on the counter: its name, argument, the
             \* value of entry before it, and what it returned
    run,     \* the driver's pattern of updates: "none" (any), "up" (only +D),
             \* "down" (only -D)
    call,    \* the last call of a feature index function: its name, its
             \* arguments and the index it returned
    sizes,   \* the Sizes... of a table
    cells,   \* the table's cells in memory order
    content, \* the value last written at each coordinate tuple of the table
    pc,      \* per worker: where it is in operator<< on the shared counter
    reg,     \* per worker: the bonus and the values of entry it has read
    exclusive, \* whether each operator<< runs as one indivisible step
    torn     \* whether some operator<< added to a value of entry other than
             \* the one it scaled

counterVars == <<D, entry, last>>
indexVars == <<call>>
tableVars == <<sizes, cells, content>>
raceVars == <<pc, reg, exclusive, torn>>
vars == <<D, entry, last, run, call, sizes, cells, content, pc, reg, exclusive, torn>>

NoOp == [op |-> "init", arg |-> 0, prev |-> 0, ret |-> 0]

\* The parts of the state a specification does not use.
NoIndex == call = [fn |-> "none", from |-> 0, target |-> {}, key |-> <<>>, ret |-> 0]
NoTable == sizes = <<>> /\ cells = <<>> /\ content = <<>>
NoRace == pc = <<>> /\ reg = <<>> /\ exclusive = TRUE /\ torn = FALSE

\* A counter of a freshly allocated table holds zero.
InitCounter ==
    /\ D \in Bounds
    /\ entry = 0
    /\ last = NoOp
    /\ run = "none"
    /\ NoIndex /\ NoTable /\ NoRace

\* operator const T&() const
Read ==
    /\ last' = [op |-> "read", arg |-> 0, prev |-> entry, ret |-> entry]
    /\ UNCHANGED <<D, entry, run, indexVars, tableVars, raceVars>>

\* operator=(const T& v)
Assign(v) ==
    /\ entry' = v
    /\ last' = [op |-> "assign", arg |-> v, prev |-> entry, ret |-> 0]
    /\ UNCHANGED <<D, run, indexVars, tableVars, raceVars>>

\* operator<<(int bonus)
Update(bonus) ==
    /\ entry' = StatsEntryUpdate(entry, bonus, D)
    /\ last' = [op |-> "update", arg |-> bonus, prev |-> entry, ret |-> 0]
    /\ UNCHANGED <<D, run, indexVars, tableVars, raceVars>>

ReadStep == Read
AssignStep == \E v \in AssignInputs(D) : Assign(v)
UpdateStep == \E bonus \in BonusInputs(D) : Update(bonus)

Init == InitCounter
Next == ReadStep \/ AssignStep \/ UpdateStep
Spec == Init /\ [][Next]_vars

(***************************************************************************)
(* A counter updated only with bonuses in [-D, D], from zero.              *)
(***************************************************************************)
\* Bounds of SpecSat: the small ones, the scenario's, and the largest valid one.
SatBounds == Bounds \cup {Int16Max}

SatBonusInputs(d) ==
    IF d \in Bounds THEN (-d)..d
    ELSE { -d, -(3 * (d \div 4)), 0, 3 * (d \div 4), d }

InitSat ==
    /\ D \in SatBounds
    /\ entry = 0
    /\ last = NoOp
    /\ run = "none"
    /\ NoIndex /\ NoTable /\ NoRace

InRangeUpdateStep == \E bonus \in SatBonusInputs(D) : Update(bonus)

NextSat == InRangeUpdateStep
SpecSat == InitSat /\ [][NextSat]_vars

(***************************************************************************)
(* A run of updates with +D only, or with -D only, from any value in       *)
(* [-D, D].  The driver keeps updating, hence the fairness.                *)
(***************************************************************************)
InitRun ==
    /\ D \in Bounds
    /\ entry \in (-D)..D
    /\ last = NoOp
    /\ run \in {"up", "down"}
    /\ NoIndex /\ NoTable /\ NoRace

RunStep == Update(IF run = "up" THEN D ELSE -D)

NextRun == RunStep
SpecRun == InitRun /\ [][NextRun]_vars /\ WF_vars(RunStep)

(***************************************************************************)
(* One update of a counter of a catalog table, from a value in [-D, D].    *)
(***************************************************************************)
\* The values of [-D, D] the catalog check starts from: the ends, the values
\* around zero, and a grid of GridSteps steps to each side.
CatalogEntries(d) ==
    { -d, -d + 1, -1, 0, 1, d - 1, d }
        \cup { k * (d \div GridSteps) : k \in (-GridSteps)..GridSteps }

InitCatalog ==
    /\ D \in CatalogBounds
    /\ entry \in CatalogEntries(D)
    /\ last = NoOp
    /\ run = "none"
    /\ NoIndex /\ NoTable /\ NoRace

CatalogUpdateStep ==
    /\ last.op = "init"
    /\ \E bonus \in BonusInputs(D) : Update(bonus)

NextCatalog == CatalogUpdateStep
SpecCatalog == InitCatalog /\ [][NextCatalog]_vars

(***************************************************************************)
(* 64-bit unsigned arithmetic.  A uint64_t (Key, Bitboard, the magics) is  *)
(* the tuple of its 8 bytes, least significant first.                      *)
(***************************************************************************)
RECURSIVE BitAnd(_, _)
\* a & b of two non-negative ints
BitAnd(a, b) ==
    IF a = 0 \/ b = 0 THEN 0
    ELSE (a % 2) * (b % 2) + 2 * BitAnd(a \div 2, b \div 2)

\* The conversion of a non-negative int to uint64_t
U64OfInt(n) == [i \in 1..8 |-> IF i <= 4 THEN (n \div (256 ^ (i - 1))) % 256 ELSE 0]

\* The conversion of a uint64_t below 2^31 to int
IntOfU64(x) == x[1] + 256 * x[2] + 65536 * x[3] + 16777216 * (x[4] % 128)

\* x & y
And64(x, y) == [i \in 1..8 |-> BitAnd(x[i], y[i])]

RECURSIVE MulAddBytes(_, _, _, _, _)
\* The bytes from the k-th on of x * m + a (mod 2^64), for a small int m
MulAddBytes(x, m, a, k, carry) ==
    IF k > 8 THEN <<>>
    ELSE LET t == x[k] * m + carry + (IF k = 1 THEN a ELSE 0)
         IN  <<t % 256>> \o MulAddBytes(x, m, a, k + 1, t \div 256)

\* The uint64_t written in decimal as the digits of hi, mid (9 digits) and
\* lo (9 digits)
U64OfDec(dec) ==
    LET zero == [i \in 1..8 |-> 0]
        step(x, c) ==
            MulAddBytes(
                MulAddBytes(
                    MulAddBytes(x, 1000, c \div 1000000, 1, 0),
                    1000, (c \div 1000) % 1000, 1, 0),
                1000, c % 1000, 1, 0)
    IN  step(step(step(zero, dec[1]), dec[2]), dec[3])

RECURSIVE MulColumn(_, _, _, _)
\* The sum of x[i] * y[j] over the bytes with i + j = k + 1, i from i on
MulColumn(x, y, k, i) ==
    IF i > k THEN 0 ELSE x[i] * y[k + 1 - i] + MulColumn(x, y, k, i + 1)

RECURSIVE MulBytes(_, _, _, _)
MulBytes(x, y, k, carry) ==
    IF k > 8 THEN <<>>
    ELSE LET t == MulColumn(x, y, k, 1) + carry
         IN  <<t % 256>> \o MulBytes(x, y, k + 1, t \div 256)

\* x * y of two uint64_t: the product modulo 2^64
Mul64(x, y) == MulBytes(x, y, 1, 0)

\* x >> 56 of a uint64_t, as an int
Shr56(x) == x[8]

(***************************************************************************)
(* Feature index functions.                                                *)
(***************************************************************************)
PAWN_HISTORY_SIZE == 512
CORRECTION_HISTORY_SIZE == 32768
\* The last dimension of KnightHistory
KnightHistoryIndexNB == 256

Squares == 0..63
Colors == {"WHITE", "BLACK"}

\* KnightMagic[64], each constant in decimal, split before its last 18 and
\* its last 9 digits.
KnightMagicDec ==
    << <<2, 649526798, 775546678>>, <<4, 152603468, 059905820>>,
       <<4, 323738553, 495348598>>, <<8, 358822318, 513263564>>,
       <<8, 233741379, 241091944>>, <<15, 862258506, 660595117>>,
       <<11, 034153426, 427387283>>, <<5, 179342299, 017078485>>,
       <<13, 953775647, 861833869>>, <<9, 285332830, 472462433>>,
       <<4, 707670090, 173510570>>, <<0, 633188408, 852161521>>,
       <<9, 295575317, 119436597>>, <<2, 602449537, 074926626>>,
       <<10, 402735044, 161298543>>, <<5, 209354341, 409342328>>,
       <<0, 162625749, 878507151>>, <<1, 009651158, 123930541>>,
       <<17, 868030413, 482491775>>, <<18, 157387793, 351835647>>,
       <<18, 428448182, 976380927>>, <<15, 559866339, 509124062>>,
       <<15, 570116201, 671053920>>, <<1, 155280919, 795624321>>,
       <<2, 486129120, 195482830>>, <<13, 187947271, 813240921>>,
       <<18, 406210577, 484414942>>, <<18, 427602675, 714473387>>,
       <<18, 441114298, 743767039>>, <<13, 816761900, 458831871>>,
       <<6, 080440195, 611631637>>, <<17, 058553541, 789489427>>,
       <<16, 801810908, 685894692>>, <<10, 863528935, 562739968>>,
       <<18, 302056847, 512170491>>, <<13, 832238890, 018011135>>,
       <<18, 441604947, 771359199>>, <<4, 539399656, 176549631>>,
       <<10, 034574284, 689510417>>, <<6, 922771568, 222818337>>,
       <<4, 170423972, 204183689>>, <<13, 981410758, 149154305>>,
       <<1, 458212938, 463817744>>, <<14, 940013606, 182964225>>,
       <<10, 126812077, 910748164>>, <<14, 499197477, 661460225>>,
       <<10, 889334102, 842943525>>, <<11, 449759955, 925008433>>,
       <<7, 662239901, 190162178>>, <<10, 624671891, 104776129>>,
       <<17, 829790316, 069208625>>, <<0, 834552698, 710835841>>,
       <<1, 569976736, 693633153>>, <<18, 290846858, 870916161>>,
       <<12, 326740164, 105761617>>, <<5, 482981632, 183385993>>,
       <<9, 386590720, 569999446>>, <<5, 202246693, 298479759>>,
       <<15, 779688972, 541825106>>, <<13, 366487713, 771978889>>,
       <<11, 198365102, 992539725>>, <<15, 043574735, 303614497>>,
       <<18, 334953575, 009493081>>, <<0, 975649118, 817374295>> >>

KnightMagic == [s \in Squares |-> U64OfDec(KnightMagicDec[s + 1])]

\* The squares a knight on s attacks (square = 8 * rank + file).
KnightAttacks(s) ==
    { t \in Squares :
        LET df == (t % 8) - (s % 8)
            dr == (t \div 8) - (s \div 8)
        IN  df * df + dr * dr = 5 }

\* The Bitboard with exactly the squares of S set
BitboardOf(S) ==
    [i \in 1..8 |->
        LET bit(f) == IF 8 * (i - 1) + f \in S THEN 2 ^ f ELSE 0
        IN  bit(0) + bit(1) + bit(2) + bit(3) + bit(4) + bit(5) + bit(6) + bit(7)]

\* knight_attack_index(Bitboard target, Square from)
knight_attack_index(target, from) == Shr56(Mul64(target, KnightMagic[from]))

\* key & (size - 1), converted to int
MaskIndexNoMinusOne(key, size) == IntOfU64(And64(key, U64OfInt(size)))
MaskIndex(key, size) == IntOfU64(And64(key, U64OfInt(size - 1)))

\* pawn_structure_index<T>(pos), with pawnKey = pos.pawn_key()
pawn_structure_index(T, pawnKey) ==
    MaskIndex(pawnKey, IF T = "Normal" THEN PAWN_HISTORY_SIZE ELSE CORRECTION_HISTORY_SIZE)

\* minor_piece_index(pos), with minorKey = pos.minor_piece_key()
minor_piece_index(minorKey) == MaskIndex(minorKey, CORRECTION_HISTORY_SIZE)

\* non_pawn_index<c>(pos), with nonPawnKey = pos.non_pawn_key(c)
non_pawn_index(c, nonPawnKey) == MaskIndex(nonPawnKey, CORRECTION_HISTORY_SIZE)

\* The keys of the model: the two low bytes from ByteSamples, the six high
\* bytes all 0 or all 255.
ByteSamples == {0, 1, 2, 127, 128, 254, 255}
KeyInputs ==
    { <<b0, b1, h, h, h, h, h, h>> : b0 \in ByteSamples, b1 \in ByteSamples, h \in {0, 255} }

\* The targets of the model for a knight on s: every subset of the squares it
\* attacks, and a few boards that are no such subset.
TargetInputs(s) == (SUBSET KnightAttacks(s)) \cup {Squares, {s}, {0, 63}}

InitIndex ==
    /\ NoIndex
    /\ D = 1 /\ entry = 0 /\ last = NoOp /\ run = "none"
    /\ NoTable /\ NoRace

\* The functions are pure: each behaviour makes one call.
Called(fn, from, target, key, ret) ==
    /\ call.fn = "none"
    /\ call' = [fn |-> fn, from |-> from, target |-> target, key |-> key, ret |-> ret]
    /\ UNCHANGED <<counterVars, run, tableVars, raceVars>>

KnightAttackIndexCall ==
    \E from \in Squares : \E target \in TargetInputs(from) :
        Called("knight_attack_index", from, target, <<>>,
               knight_attack_index(BitboardOf(target), from))

PawnStructureIndexCall ==
    \E T \in {"Normal", "Correction"} : \E key \in KeyInputs :
        Called("pawn_structure_index<" \o T \o ">", 0, {}, key, pawn_structure_index(T, key))

MinorPieceIndexCall ==
    \E key \in KeyInputs :
        Called("minor_piece_index", 0, {}, key, minor_piece_index(key))

NonPawnIndexCall ==
    \E c \in Colors : \E key \in KeyInputs :
        Called("non_pawn_index<" \o c \o ">", 0, {}, key, non_pawn_index(c, key))

NextIndex ==
    \/ KnightAttackIndexCall
    \/ PawnStructureIndexCall
    \/ MinorPieceIndexCall
    \/ NonPawnIndexCall
SpecIndex == InitIndex /\ [][NextIndex]_vars

(***************************************************************************)
(* Stats<T, D, Sizes...>: the multi-dimensional table.                     *)
(***************************************************************************)
RECURSIVE ProductFrom(_, _)
ProductFrom(sz, i) == IF i > Len(sz) THEN 1 ELSE sz[i] * ProductFrom(sz, i + 1)
\* sizes[0] * sizes[1] * ..., the number of cells
NumCells(sz) == ProductFrom(sz, 1)

Shapes ==
    { sz \in UNION { [1..r -> 1..MaxDimSize] : r \in 1..MaxRank } :
        NumCells(sz) <= MaxCells }

\* The coordinate tuples within the declared bounds
Coords(sz) ==
    { c \in [1..Len(sz) -> 0..(MaxDimSize - 1)] : \A i \in 1..Len(sz) : c[i] < sz[i] }

RECURSIVE OffsetFromOffByOne(_, _, _, _)
OffsetFromOffByOne(c, sz, i, acc) ==
    IF i > Len(sz) THEN acc
    ELSE OffsetFromOffByOne(c, sz, i + 1, acc * (sz[i] - 1) + c[i])
RECURSIVE OffsetFrom(_, _, _, _)
OffsetFrom(c, sz, i, acc) ==
    IF i > Len(sz) THEN acc
    ELSE OffsetFrom(c, sz, i + 1, acc * sz[i] + c[i])

\* The place in memory order of the cell at c: row-major, the last dimension
\* varies fastest.
OffsetOffByOne(c, sz) == OffsetFromOffByOne(c, sz, 1, 0)
Offset(c, sz) == OffsetFrom(c, sz, 1, 0)

\* Index(coords...), read
CellAt(c) == cells[Offset(c, sizes) + 1]

RECURSIVE MarkerFrom(_, _)
MarkerFrom(c, i) == IF i > Len(c) THEN 0 ELSE c[i] + 10 * MarkerFrom(c, i + 1)
\* A marker of the tuple c, distinct from every other tuple's and from the
\* fill values: its coordinates as decimal digits, plus one.
Marker(c) == 1 + MarkerFrom(c, 1)

FillInputs == {0, -1}

\* Construct: NumCells cells, each zero.
InitTable ==
    /\ sizes \in Shapes
    /\ cells = [k \in 1..NumCells(sizes) |-> 0]
    /\ content = [c \in Coords(sizes) |-> 0]
    /\ D = 1 /\ entry = 0 /\ last = NoOp /\ run = "none"
    /\ NoIndex /\ NoRace

\* Index(coords...) = marker
TableWrite ==
    \E c \in Coords(sizes) :
        /\ cells' = [cells EXCEPT ![Offset(c, sizes) + 1] = Marker(c)]
        /\ content' = [content EXCEPT ![c] = Marker(c)]
        /\ UNCHANGED <<sizes, counterVars, run, indexVars, raceVars>>

\* Fill(value)
TableFill ==
    \E v \in FillInputs :
        /\ cells' = [k \in DOMAIN cells |-> v]
        /\ content' = [c \in DOMAIN content |-> v]
        /\ UNCHANGED <<sizes, counterVars, run, indexVars, raceVars>>

NextTable == TableWrite \/ TableFill
SpecTable == InitTable /\ [][NextTable]_vars

(***************************************************************************)
(* One counter shared by several workers.  operator<< is no atomic         *)
(* operation: it reads entry for the scaled term, reads entry for the      *)
(* addition and writes the sum.  The unsynchronized accesses are a data    *)
(* race; the second read gives the value in memory or the value already    *)
(* read.  With exclusive access each operator<< is one step.               *)
(***************************************************************************)
Workers == {1, 2}

RaceBonusInputs(d) == { -d - 1, -d, -1, 1, d }

IdleReg == [bonus |-> 0, scaled |-> 0, addend |-> 0, n |-> 0]

InitRace ==
    /\ D \in SmallBounds
    /\ entry = 0
    /\ pc = [w \in Workers |-> "idle"]
    /\ reg = [w \in Workers |-> IdleReg]
    /\ exclusive \in BOOLEAN
    /\ torn = FALSE
    /\ last = NoOp /\ run = "none"
    /\ NoIndex /\ NoTable

\* operator<<(bonus) as one indivisible step
ExclusiveUpdate(w) ==
    \E bonus \in RaceBonusInputs(D) :
        /\ exclusive /\ pc[w] = "idle" /\ reg[w].n < MaxUpdates
        /\ entry' = StatsEntryUpdate(entry, bonus, D)
        /\ reg' = [reg EXCEPT ![w].n = @ + 1]
        /\ UNCHANGED <<D, last, run, indexVars, tableVars, pc, exclusive, torn>>

\* clampedBonus = std::clamp(bonus, -D, D), and the read of entry in
\* entry * std::abs(clampedBonus) / D
ReadScaled(w) ==
    \E bonus \in RaceBonusInputs(D) :
        /\ ~exclusive /\ pc[w] = "idle" /\ reg[w].n < MaxUpdates
        /\ reg' = [reg EXCEPT ![w] = [bonus |-> clamp(bonus, -D, D), scaled |-> entry,
                                      addend |-> 0, n |-> @.n + 1]]
        /\ pc' = [pc EXCEPT ![w] = "scaled"]
        /\ UNCHANGED <<counterVars, run, indexVars, tableVars, exclusive, torn>>

\* The read of entry as the left operand of +=
ReadAddend(w) ==
    /\ pc[w] = "scaled"
    /\ \E a \in {entry, reg[w].scaled} : reg' = [reg EXCEPT ![w].addend = a]
    /\ pc' = [pc EXCEPT ![w] = "loaded"]
    /\ UNCHANGED <<counterVars, run, indexVars, tableVars, exclusive, torn>>

\* The write of entry
WriteEntry(w) ==
    /\ pc[w] = "loaded"
    /\ entry' = Narrow16(reg[w].addend + UpdateDelta(reg[w].scaled, reg[w].bonus, D))
    /\ torn' = (torn \/ reg[w].addend # reg[w].scaled)
    /\ pc' = [pc EXCEPT ![w] = "idle"]
    /\ UNCHANGED <<D, last, run, indexVars, tableVars, reg, exclusive>>

NextRace ==
    \E w \in Workers :
        \/ ExclusiveUpdate(w)
        \/ ReadScaled(w)
        \/ ReadAddend(w)
        \/ WriteEntry(w)
SpecRace == InitRace /\ [][NextRace]_vars

(***************************************************************************)
(* Properties of the counter.                                              *)
(***************************************************************************)
InRange(e) == -D <= e /\ e <= D
Updated == last.op = "update"

\* C1: a counter that starts at 0 and is updated only with bonuses in [-D, D]
\* satisfies -D <= entry <= D after every update (the assertion at the end of
\* operator<< never fails), for every valid bound D.
C1_SaturationInvariant == ValidBound(D) /\ -D <= entry /\ entry <= D

\* C1 witness: an update with a bonus below D has moved a counter that was
\* below D exactly onto the bound D.
C1_Witness ==
    /\ Updated /\ last.prev > 0 /\ last.prev < D
    /\ last.arg > 0 /\ last.arg < D /\ entry = D

\* The quotient q is n / d truncated toward zero.
IsTruncatedQuotient(q, n, d) ==
    LET an == IF n < 0 THEN -n ELSE n
        aq == IF q < 0 THEN -q ELSE q
    IN  /\ aq * d <= an
        /\ an < (aq + 1) * d
        /\ (q > 0 => n > 0)
        /\ (q < 0 => n < 0)

Max(a, b) == IF a >= b THEN a ELSE b
Min(a, b) == IF a <= b THEN a ELSE b

\* C4: an update of a value entry_old in [-D, D] with any bonus gives
\* entry_old + cb - trunc(entry_old * |cb| / D) with cb = max(-D, min(D, bonus))
\* and trunc the quotient rounded toward zero; with D = 100, update(50) from 0
\* gives 50, update(50) from 50 gives 75, update(-200) from 75 gives -100.
C4_ReferenceStep ==
    /\ Updated /\ InRange(last.prev) =>
          LET cb == Max(-D, Min(D, last.arg))
              q  == last.prev + cb - entry
          IN  IsTruncatedQuotient(q, last.prev * (IF cb < 0 THEN -cb ELSE cb), D)
    /\ Updated /\ D = 100 =>
          /\ (last.prev = 0 /\ last.arg = 50 => entry = 50)
          /\ (last.prev = 50 /\ last.arg = 50 => entry = 75)
          /\ (last.prev = 75 /\ last.arg = -200 => entry = -100)

\* C4 witness: the last step of the scenario, update(-200) of 75 under D = 100.
C4_Witness ==
    /\ D = 100 /\ Updated /\ last.prev = 75 /\ last.arg = -200
    /\ entry = -100

\* C5: Update(0) leaves every counter value in [-D, D] unchanged.
C5_ZeroBonusNoOp ==
    Updated /\ last.arg = 0 /\ InRange(last.prev) => entry = last.prev

\* C5 witness: Update(0) has run on a counter holding -D.
C5_Witness == Updated /\ last.arg = 0 /\ last.prev = -D /\ entry = -D

\* C6: along a run of Update(+D) the value never decreases, never exceeds D,
\* and eventually equals D and stays there; along a run of Update(-D) it never
\* increases, never goes below -D, and eventually stays at -D.
C6_RunConverges ==
    /\ [][run = "up" => entry' >= entry /\ entry' <= D]_vars
    /\ [][run = "down" => entry' <= entry /\ entry' >= -D]_vars
    /\ (run = "up" => <>[](entry = D))
    /\ (run = "down" => <>[](entry = -D))

\* C6 witness: in a run of Update(+D) an update has taken the counter from -D
\* to D.
C6_Witness == run = "up" /\ Updated /\ last.prev = -D /\ entry = D

C10_NoOverflow ==
    Updated /\ InRange(last.prev) =>
        LET cb   == clamp(last.arg, -D, D)
            prod == ScaleProduct(last.prev, cb)
            sum  == UpdateSum(last.prev, last.arg, D)
        IN  /\ Int32Min <= prod /\ prod <= Int32Max
            /\ Int32Min <= sum /\ sum <= Int32Max
            /\ Int16Min <= sum /\ sum <= Int16Max
            /\ entry = sum

\* C10 witness: PieceToHistory's counter at -30000 updated with INT_MIN, the
\* largest product of the catalog.
C10_Witness ==
    /\ D = PieceToHistoryD /\ Updated /\ last.prev = -D
    /\ last.arg = Int32Min /\ entry = -D

(***************************************************************************)
(* Properties of the feature index functions.                              *)
(***************************************************************************)
\* C2 as claimed: for every origin square and every two distinct subsets of the
\* squares a knight on it attacks, knight_attack_index differs: no other subset
\* has the index the call returned for its target.
C2_KnightIndexInjective ==
    call.fn = "knight_attack_index" /\ call.target \subseteq KnightAttacks(call.from) =>
        \A B \in SUBSET KnightAttacks(call.from) :
            B # call.target => knight_attack_index(BitboardOf(B), call.from) # call.ret

\* C3: pawn_structure_index<Normal> returns an index of PawnHistory's first
\* dimension, pawn_structure_index<Correction>, minor_piece_index and
\* non_pawn_index an index below CORRECTION_HISTORY_SIZE, knight_attack_index an
\* index of KnightHistory's last dimension, for every key, target and square.
C3_IndexInBounds ==
    /\ call.fn = "pawn_structure_index<Normal>" => call.ret \in 0..(PAWN_HISTORY_SIZE - 1)
    /\ call.fn \in { "pawn_structure_index<Correction>", "minor_piece_index",
                      "non_pawn_index<WHITE>", "non_pawn_index<BLACK>" } =>
          call.ret \in 0..(CORRECTION_HISTORY_SIZE - 1)
    /\ call.fn = "knight_attack_index" => call.ret \in 0..(KnightHistoryIndexNB - 1)

\* C3 witness: pawn_structure_index<Normal> of a key with all bits set has
\* returned the last index, 511.
C3_Witness ==
    /\ call.fn = "pawn_structure_index<Normal>"
    /\ call.key = <<255, 255, 255, 255, 255, 255, 255, 255>>
    /\ call.ret = PAWN_HISTORY_SIZE - 1

(***************************************************************************)
(* Properties of the table.                                                *)
(***************************************************************************)
\* C8: reading any coordinate tuple returns the value last written at that
\* tuple (its marker, or the fill value), so a write to one tuple leaves every
\* other cell unchanged; and the row-major mapping of the in-bounds tuples to
\* the sizes[0]*sizes[1]*... cells is a bijection.
C8_IndexRoundTrip ==
    /\ \A c \in Coords(sizes) : CellAt(c) = content[c]
    /\ Len(cells) = NumCells(sizes)
    /\ \A c \in Coords(sizes) : Offset(c, sizes) \in 0..(NumCells(sizes) - 1)
    /\ \A c1 \in Coords(sizes) : \A c2 \in Coords(sizes) :
          Offset(c1, sizes) = Offset(c2, sizes) => c1 = c2
    /\ Cardinality(Coords(sizes)) = NumCells(sizes)

\* C8 witness: a table of two dimensions of different sizes, both above one,
\* holds its own marker at every tuple.
C8_Witness ==
    /\ Len(sizes) = 2 /\ sizes[1] > 1 /\ sizes[2] > sizes[1]
    /\ \A c \in Coords(sizes) : content[c] = Marker(c) /\ CellAt(c) = Marker(c)

(***************************************************************************)
(* Properties of the shared counter.                                       *)
(***************************************************************************)
\* C9: with each Update one indivisible step the shared counter stays in
\* [-D, D]; a value outside [-D, D] arises only when the steps of two Updates
\* interleave so that an Update adds to another value of entry than the one it
\* scaled (and such a state is reachable: the witness).
C9_RaceBreaksSaturation ==
    /\ exclusive => InRange(entry)
    /\ ~InRange(entry) => ~exclusive /\ torn

\* C9 witness: without exclusive access, both workers are done with their
\* updates and the counter, which started at 0, is above D.
C9_Witness ==
    /\ ~exclusive /\ entry > D
    /\ \A w \in Workers : pc[w] = "idle"

====
